---- MODULE Spec2Model ----
(***************************************************************************)
(* Model of dotconfig-hub's project ledger (project_mapping.py) and of the *)
(* init / sync commands that maintain it (cli.py).                         *)
(*                                                                         *)
(* A path is the tuple of its pathlib parts ("/" first when absolute); a   *)
(* string is the sequence of its characters.  Directory names are single   *)
(* characters so that a string is literally the sequence of its tokens;    *)
(* ".." is kept as one token.                                              *)
(***************************************************************************)
EXTENDS Integers, Sequences, FiniteSets, TLC

\* ------------------------------------------------------------------ bounds
MaxProjects == 2      \* entries kept in one ledger
MaxTicks    == 1      \* clock advances
MaxHours    == 1      \* largest find_projects_needing_sync threshold
MaxCount    == 1      \* files one engine call reports as synced
TickSeconds == 3600   \* seconds by which the clock advances at a time

\* --------------------------------------------------------------- constants
SecondsPerHour == 3600

\* -------------------------------------------------------------- filesystem
Root == <<"/">>
Home == <<"/", "h", "u">>
P    == <<"/", "h", "u", "p">>
W    == <<"/", "w">>
L    == <<"/", "l">>
Q    == <<"/", "h", "u", "q">>

\* the one symbolic link of the filesystem: /l -> /h/u/p
Symlinks == [x \in {L} |-> P]

\* the directories that exist: /h/u/p does, /w and /h/u/~/p do not
Disk == {Root, <<"/", "h">>, Home, P, Q}

\* working directories of library callers
Cwds == {Home}

\* spellings callers pass as project_path
Paths == { P, <<"p">>, <<"~", "p">>, W, L }

Names == {"a", "b"}

\* thresholds passed to find_projects_needing_sync
Hours == 0..MaxHours

EnvLists == { <<"a">>, <<"b", "b">> }

\* ------------------------------------------------------------------- paths
Ord == [c \in {"..", "/", "h", "l", "p", "q", "u", "w", "~"} |->
          CASE c = ".." -> 46 [] c = "/" -> 47 [] c = "h" -> 104
            [] c = "l" -> 108 [] c = "p" -> 112 [] c = "q" -> 113
            [] c = "u" -> 117 [] c = "w" -> 119 [] c = "~" -> 126]

IsAbsolute(parts) == parts # <<>> /\ parts[1] = "/"

Parent(parts) == IF Len(parts) <= 1 THEN parts ELSE SubSeq(parts, 1, Len(parts) - 1)

RECURSIVE Realpath(_, _)
Realpath(done, rest) ==
  IF rest = <<>> THEN done
  ELSE LET c == Head(rest) IN
       IF c = ".." THEN Realpath(Parent(done), Tail(rest))
       ELSE LET n == Append(done, c) IN
            IF n \in DOMAIN Symlinks
              THEN Realpath(Symlinks[n], Tail(rest))
              ELSE Realpath(n, Tail(rest))

\* Path.resolve(): absolute, ".." and symlinks resolved; "~" is an ordinary name
Resolve(cwd, parts) ==
  IF IsAbsolute(parts) THEN Realpath(Root, Tail(parts)) ELSE Realpath(cwd, parts)

IsRelativeTo(abs, base) ==
  Len(base) <= Len(abs) /\ SubSeq(abs, 1, Len(base)) = base

RelativeTo(abs, base) == SubSeq(abs, Len(base) + 1, Len(abs))

RECURSIVE Join(_)
Join(names) ==
  IF names = <<>> THEN <<>>
  ELSE IF Len(names) = 1 THEN names
  ELSE <<Head(names), "/">> \o Join(Tail(names))

\* str(path)
Str(parts) == IF IsAbsolute(parts) THEN <<"/">> \o Join(Tail(parts)) ELSE Join(parts)

RECURSIVE Split(_)
Split(s) ==
  IF s = <<>> THEN <<>>
  ELSE IF Head(s) = "/" THEN Split(Tail(s))
  ELSE <<Head(s)>> \o Split(Tail(s))

\* Path(string)
PathOf(s) == IF s # <<>> /\ s[1] = "/" THEN <<"/">> \o Split(Tail(s)) ELSE Split(s)

\* Path.expanduser()
Expanduser(parts) ==
  IF parts # <<>> /\ parts[1] = "~" THEN Home \o Tail(parts) ELSE parts

_normalize_project_path(cwd, project_path) ==
  LET abs_path == Resolve(cwd, project_path) IN
  IF IsRelativeTo(abs_path, Home)
    THEN Str(<<"~">> \o RelativeTo(abs_path, Home))
    ELSE Str(abs_path)

\* string comparison, as Python's str.__lt__
RECURSIVE StrLess(_, _)
StrLess(s, t) ==
  IF t = <<>> THEN FALSE
  ELSE IF s = <<>> THEN TRUE
  ELSE IF Head(s) = Head(t) THEN StrLess(Tail(s), Tail(t))
  ELSE Ord[Head(s)] < Ord[Head(t)]

\* -------------------------------------------------------------- timestamps
Absent == [kind |-> "absent", t |-> 0]
Bad    == [kind |-> "bad", t |-> 0]

\* a datetime object: what yaml.safe_load makes of an unquoted timestamp
Datetime(t) == [kind |-> "datetime", t |-> t]

\* datetime.isoformat()
isoformat(t) == [kind |-> "iso", t |-> t]

\* datetime.fromisoformat(): ok is FALSE where it raises (ValueError for a
\* string in another format, TypeError for a value that is not a string)
fromisoformat(s) == [ok |-> s.kind = "iso", t |-> s.t]

\* ------------------------------------------------------------------ ledger
VARIABLES mapping_data, file, now, op, active, run, inv

vars == <<mapping_data, file, now, op, active, run, inv>>

Item(key, environment_sets, last_synced) ==
  [key |-> key, info |-> [environment_sets |-> environment_sets, last_synced |-> last_synced]]

Keys(projects) == {projects[i].key : i \in 1..Len(projects)}

Index(projects, key) == CHOOSE i \in 1..Len(projects) : projects[i].key = key

\* dict.get
Get(projects, key) ==
  IF key \in Keys(projects) THEN <<projects[Index(projects, key)].info>> ELSE <<>>

\* mutant: the item is appended even when the key is already there
SetItemAppend(projects, key, info) == Append(projects, [key |-> key, info |-> info])

\* dict[key] = info : an existing key keeps its place, a new one goes last
SetItem(projects, key, info) ==
  IF key \in Keys(projects)
    THEN [projects EXCEPT ![Index(projects, key)].info = info]
    ELSE Append(projects, [key |-> key, info |-> info])

\* del dict[key]
DelItem(projects, key) ==
  LET i == Index(projects, key) IN
  SubSeq(projects, 1, i - 1) \o SubSeq(projects, i + 1, Len(projects))

RECURSIVE Insert(_, _)
Insert(sorted, item) ==
  IF sorted = <<>> THEN <<item>>
  ELSE IF StrLess(item.key, Head(sorted).key) THEN <<item>> \o sorted
  ELSE <<Head(sorted)>> \o Insert(Tail(sorted), item)

\* sorted(projects.items())
RECURSIVE Sorted(_)
Sorted(projects) ==
  IF projects = <<>> THEN <<>>
  ELSE Insert(Sorted(SubSeq(projects, 1, Len(projects) - 1)), projects[Len(projects)])


\* mutant: a string that reads as a timestamp is written without quotes
DumpScalarPlain(value) ==
  CASE value.kind = "absent" -> [style |-> "omitted", text |-> "", t |-> 0]
    [] value.kind = "bad"    -> [style |-> "plain", text |-> "word", t |-> 0]
    [] OTHER                 -> [style |-> "plain", text |-> "timestamp", t |-> value.t]

\* yaml.dump of a last_synced value: a string that would read back as a
\* timestamp is quoted, a datetime is written plain, a missing key is not written
DumpScalar(value) ==
  CASE value.kind = "absent" -> [style |-> "omitted", text |-> "", t |-> 0]
    [] value.kind = "bad"    -> [style |-> "plain", text |-> "word", t |-> 0]
    [] value.kind = "iso"    -> [style |-> "quoted", text |-> "timestamp", t |-> value.t]
    [] OTHER                 -> [style |-> "plain", text |-> "timestamp", t |-> value.t]

\* yaml.safe_load of a last_synced node
LoadScalar(node) ==
  CASE node.style = "omitted" -> Absent
    [] node.text = "word"     -> Bad
    [] node.style = "quoted"  -> isoformat(node.t)
    [] OTHER                  -> Datetime(node.t)

\* yaml.dump(..., sort_keys=False): the entries in the order of the dict
Dump(projects) ==
  [i \in 1..Len(projects) |->
     [key  |-> projects[i].key,
      info |-> [environment_sets |-> projects[i].info.environment_sets,
                last_synced      |-> DumpScalar(projects[i].info.last_synced)]]]

\* yaml.safe_load
SafeLoad(nodes) ==
  [i \in 1..Len(nodes) |->
     [key  |-> nodes[i].key,
      info |-> [environment_sets |-> nodes[i].info.environment_sets,
                last_synced      |-> LoadScalar(nodes[i].info.last_synced)]]]

\* the file on disk.  kind is "missing"; "corrupt" (unreadable, or not YAML);
\* "empty" (loads as None); "null_projects" (the document "projects:", whose
\* value loads as None); or "doc" (a mapping whose "projects" is a mapping)
Missing      == [kind |-> "missing", projects |-> <<>>]
Corrupt      == [kind |-> "corrupt", projects |-> <<>>]
Empty        == [kind |-> "empty", projects |-> <<>>]
NullProjects == [kind |-> "null_projects", projects |-> <<>>]
Doc(projects) == [kind |-> "doc", projects |-> Dump(projects)]

\* ledger files found at start-up
InitFiles ==
  { Missing,
    Doc(<<Item(Str(W), <<"a">>, Bad), Item(Str(<<"~", "p">>), <<"b", "b">>, Absent)>>) }

\* files the loader may meet
LoadFiles ==
  InitFiles \cup
  { Corrupt, Empty, NullProjects,
    Doc(<<Item(Str(W), <<"a">>, Datetime(0))>>) }

\* type is the type of data["projects"]: the loader adds an empty dict only
\* when the key is missing, so a null value is returned as it is
_load_mapping(f) ==
  CASE f.kind = "doc"           -> [projects |-> SafeLoad(f.projects), type |-> "dict"]
    [] f.kind = "null_projects" -> [projects |-> <<>>, type |-> "NoneType"]
    [] OTHER                    -> [projects |-> <<>>, type |-> "dict"]

\* the except branch of _load_mapping prints a warning
Warns(f) == f.kind = "corrupt"

\* what the last call was: its arguments, the entries it found and its return value
Call(name) ==
  [name |-> name, cwd |-> <<>>, project_path |-> <<>>, environment_sets |-> <<>>,
   env_set |-> "", hours |-> 0, before |-> mapping_data.projects, result |-> <<>>,
   usage |-> [n \in {} |-> 0], raised |-> FALSE, warning |-> FALSE]

\* ------------------------------------------------------------ command line
\* the project the commands are run in: Path.cwd()
ProjectDir == Q

\* the template catalog: environment set -> its tools
Catalog == [n \in Names |-> IF n = "a" THEN {"vscode"} ELSE {"vscode", "git"}]

None == ""

\* what the last command was, with its options and what it did
Run(cmd) ==
  [cmd |-> cmd, outcome |-> "", env_set |-> None, tool |-> None, file |-> None,
   dry_run |-> FALSE, force |-> FALSE, at |-> 0,
   active_env_sets |-> <<>>, all_results |-> <<>>, not_found |-> <<>>, raised |-> "none",
   displayed |-> FALSE, updated |-> FALSE]

\* two invocations of the tool that may overlap
Invocations == {1, 2}

\* the project each of them is run in: Path.cwd()
Cwd == [p \in Invocations |-> IF p = 1 THEN Q ELSE W]

\* an invocation that has not reached the ledger yet.  pc is its position,
\* loaded what it read from the file; loaded_at and saved_at count the saves
\* made on the file when it loaded and when it saved
Idle ==
  [pc |-> "start", mapping_data |-> [projects |-> <<>>, type |-> "dict"], loaded |-> <<>>,
   loaded_at |-> 0, saved_at |-> 0, raised |-> FALSE]

Init ==
  /\ file \in InitFiles
  /\ mapping_data = _load_mapping(file)
  /\ now = 0
  /\ op = [Call("__init__") EXCEPT !.warning = Warns(file)]
  /\ active = <<>>
  /\ run = Run("")
  /\ inv = [p \in Invocations |-> Idle]

\* data["projects"] is not a dict: the first use the method makes of it raises
\* TypeError or AttributeError, before anything is changed or written
Raise(name) ==
  /\ op' = [Call(name) EXCEPT !.raised = TRUE]
  /\ UNCHANGED <<mapping_data, file, now, active, run, inv>>

\* ProjectMapping(templates_dir)
Construct ==
  /\ mapping_data' = _load_mapping(file)
  /\ op' = [Call("__init__") EXCEPT !.warning = Warns(file)]
  /\ UNCHANGED <<file, now, active, run, inv>>

\* mutant: the sorted copy loses its last entry
SaveMappingLossy(data) ==
  [data EXCEPT !.projects = SubSeq(Sorted(data.projects), 1, Len(data.projects) - 1)]

SaveMapping(data) == [data EXCEPT !.projects = Sorted(data.projects)]

save_mapping ==
  IF mapping_data.type # "dict" THEN Raise("save_mapping") ELSE
  /\ mapping_data' = SaveMapping(mapping_data)
  /\ file' = Doc(mapping_data'.projects)
  /\ op' = Call("save_mapping")
  /\ UNCHANGED <<now, active, run, inv>>

\* mutant: the entry is stored under the path as given, not normalized
AddProjectRawKey(data, cwd, project_path, environment_sets, t) ==
  [data EXCEPT !.projects =
     SetItem(@, Str(project_path),
             [environment_sets |-> environment_sets, last_synced |-> isoformat(t)])]

AddProject(data, cwd, project_path, environment_sets, t) ==
  LET normalized_path == _normalize_project_path(cwd, project_path) IN
  [data EXCEPT !.projects =
     SetItem(@, normalized_path,
             [environment_sets |-> environment_sets, last_synced |-> isoformat(t)])]

add_project ==
  IF mapping_data.type # "dict" THEN Raise("add_project") ELSE
  \E cwd \in Cwds, project_path \in Paths, environment_sets \in EnvLists :
    /\ \/ Len(mapping_data.projects) < MaxProjects
       \/ _normalize_project_path(cwd, project_path) \in Keys(mapping_data.projects)
    /\ mapping_data' = AddProject(mapping_data, cwd, project_path, environment_sets, now)
    /\ op' = [Call("add_project") EXCEPT !.cwd = cwd, !.project_path = project_path,
                !.environment_sets = environment_sets]
    /\ UNCHANGED <<file, now, active, run, inv>>

\* mutant: the first entry is deleted, whichever path is given
RemoveProjectFirst(data, cwd, project_path) ==
  IF data.projects # <<>>
    THEN [data EXCEPT !.projects = Tail(@)]
    ELSE data

RemoveProject(data, cwd, project_path) ==
  LET normalized_path == _normalize_project_path(cwd, project_path) IN
  IF normalized_path \in Keys(data.projects)
    THEN [data EXCEPT !.projects = DelItem(@, normalized_path)]
    ELSE data

remove_project ==
  IF mapping_data.type # "dict" THEN Raise("remove_project") ELSE
  \E cwd \in Cwds, project_path \in Paths :
    /\ mapping_data' = RemoveProject(mapping_data, cwd, project_path)
    /\ op' = [Call("remove_project") EXCEPT !.cwd = cwd, !.project_path = project_path]
    /\ UNCHANGED <<file, now, active, run, inv>>

\* mutant: the lookup uses the path as given, not normalized
GetProjectInfoRaw(data, cwd, project_path) == Get(data.projects, Str(project_path))

\* <<info>> when found, <<>> for None
GetProjectInfo(data, cwd, project_path) ==
  LET normalized_path == _normalize_project_path(cwd, project_path) IN
  Get(data.projects, normalized_path)

get_project_info ==
  IF mapping_data.type # "dict" THEN Raise("get_project_info") ELSE
  \E cwd \in Cwds, project_path \in Paths :
    /\ op' = [Call("get_project_info") EXCEPT !.cwd = cwd, !.project_path = project_path,
                !.result = GetProjectInfo(mapping_data, cwd, project_path)]
    /\ UNCHANGED <<mapping_data, file, now, active, run, inv>>

InList(x, list) == \E i \in 1..Len(list) : list[i] = x

\* info.copy() with the "path" key added
WithPath(item) ==
  [environment_sets |-> item.info.environment_sets,
   last_synced |-> item.info.last_synced, path |-> item.key]

RECURSIVE GetProjectsByEnvironmentSet(_, _)
GetProjectsByEnvironmentSet(projects, env_set) ==
  IF projects = <<>> THEN <<>>
  ELSE (IF InList(env_set, Head(projects).info.environment_sets)
          THEN <<WithPath(Head(projects))>> ELSE <<>>)
       \o GetProjectsByEnvironmentSet(Tail(projects), env_set)

get_projects_by_environment_set ==
  IF mapping_data.type # "dict" THEN Raise("get_projects_by_environment_set") ELSE
  \E env_set \in Names :
    /\ op' = [Call("get_projects_by_environment_set") EXCEPT !.env_set = env_set,
                !.result = GetProjectsByEnvironmentSet(mapping_data.projects, env_set)]
    /\ UNCHANGED <<mapping_data, file, now, active, run, inv>>

get_all_projects ==
  IF mapping_data.type # "dict" THEN Raise("get_all_projects") ELSE
  /\ op' = [Call("get_all_projects") EXCEPT !.result = mapping_data.projects]
  /\ UNCHANGED <<mapping_data, file, now, active, run, inv>>

\* usage[env_set] = usage.get(env_set, 0) + 1
Count(usage, env_set) ==
  [n \in DOMAIN usage \cup {env_set} |->
     IF n = env_set THEN (IF n \in DOMAIN usage THEN usage[n] ELSE 0) + 1 ELSE usage[n]]

RECURSIVE CountList(_, _)
CountList(usage, environment_sets) ==
  IF environment_sets = <<>> THEN usage
  ELSE CountList(Count(usage, Head(environment_sets)), Tail(environment_sets))

RECURSIVE CountAll(_, _)
CountAll(usage, projects) ==
  IF projects = <<>> THEN usage
  ELSE CountAll(CountList(usage, Head(projects).info.environment_sets), Tail(projects))

GetEnvironmentSetUsage(data) == CountAll([n \in {} |-> 0], data.projects)

get_environment_set_usage ==
  IF mapping_data.type # "dict" THEN Raise("get_environment_set_usage") ELSE
  /\ op' = [Call("get_environment_set_usage") EXCEPT
              !.usage = GetEnvironmentSetUsage(mapping_data)]
  /\ UNCHANGED <<mapping_data, file, now, active, run, inv>>

\* mutant: a path that is not stored gets an entry
UpdateLastSyncedCreates(data, cwd, project_path, t) ==
  LET normalized_path == _normalize_project_path(cwd, project_path) IN
  [data EXCEPT !.projects =
     SetItem(@, normalized_path,
             [environment_sets |-> IF normalized_path \in Keys(@)
                                     THEN Get(@, normalized_path)[1].environment_sets
                                     ELSE <<>>,
              last_synced |-> isoformat(t)])]

UpdateLastSynced(data, cwd, project_path, t) ==
  LET normalized_path == _normalize_project_path(cwd, project_path) IN
  IF normalized_path \in Keys(data.projects)
    THEN [data EXCEPT
            !.projects[Index(data.projects, normalized_path)].info.last_synced = isoformat(t)]
    ELSE data

update_last_synced ==
  IF mapping_data.type # "dict" THEN Raise("update_last_synced") ELSE
  \E cwd \in Cwds, project_path \in Paths :
    /\ mapping_data' = UpdateLastSynced(mapping_data, cwd, project_path, now)
    /\ op' = [Call("update_last_synced") EXCEPT !.cwd = cwd, !.project_path = project_path]
    /\ UNCHANGED <<file, now, active, run, inv>>

\* Path.exists()
Exists(cwd, parts) == Resolve(cwd, parts) \in Disk

\* mutant: the stored key is tested without expanding the home alias
IsMissingUnexpanded(cwd, key) == ~Exists(cwd, PathOf(key))

IsMissing(cwd, key) == ~Exists(cwd, Expanduser(PathOf(key)))

RECURSIVE Kept(_, _)
Kept(projects, cwd) ==
  IF projects = <<>> THEN <<>>
  ELSE (IF IsMissing(cwd, Head(projects).key) THEN <<>> ELSE <<Head(projects)>>)
       \o Kept(Tail(projects), cwd)

RECURSIVE Removed(_, _)
Removed(projects, cwd) ==
  IF projects = <<>> THEN <<>>
  ELSE (IF IsMissing(cwd, Head(projects).key) THEN <<Head(projects).key>> ELSE <<>>)
       \o Removed(Tail(projects), cwd)

CleanupMissingProjects(data, cwd) == [data EXCEPT !.projects = Kept(@, cwd)]

cleanup_missing_projects ==
  IF mapping_data.type # "dict" THEN Raise("cleanup_missing_projects") ELSE
  \E cwd \in Cwds :
    /\ mapping_data' = CleanupMissingProjects(mapping_data, cwd)
    /\ op' = [Call("cleanup_missing_projects") EXCEPT !.cwd = cwd,
                !.result = Removed(mapping_data.projects, cwd)]
    /\ UNCHANGED <<file, now, active, run, inv>>

\* mutant: an entry synced exactly at the cutoff counts as old
NeedsSyncInclusive(info, cutoff) ==
  LET last_synced_str == info.last_synced IN
  IF last_synced_str.kind # "absent"
    THEN LET last_synced == fromisoformat(last_synced_str) IN
         IF last_synced.ok THEN last_synced.t <= cutoff ELSE TRUE
    ELSE TRUE

NeedsSync(info, cutoff) ==
  LET last_synced_str == info.last_synced IN
  IF last_synced_str.kind # "absent"
    THEN LET last_synced == fromisoformat(last_synced_str) IN
         IF last_synced.ok THEN last_synced.t < cutoff ELSE TRUE
    ELSE TRUE

RECURSIVE OldProjects(_, _)
OldProjects(projects, cutoff) ==
  IF projects = <<>> THEN <<>>
  ELSE (IF NeedsSync(Head(projects).info, cutoff) THEN <<WithPath(Head(projects))>> ELSE <<>>)
       \o OldProjects(Tail(projects), cutoff)

FindProjectsNeedingSync(data, hours, t) ==
  LET cutoff == t - (hours * SecondsPerHour) IN OldProjects(data.projects, cutoff)

find_projects_needing_sync ==
  IF mapping_data.type # "dict" THEN Raise("find_projects_needing_sync") ELSE
  \E hours \in Hours :
    /\ op' = [Call("find_projects_needing_sync") EXCEPT !.hours = hours,
                !.result = FindProjectsNeedingSync(mapping_data, hours, now)]
    /\ UNCHANGED <<mapping_data, file, now, active, run, inv>>

\* the clock advances
Tick ==
  /\ now < MaxTicks * TickSeconds
  /\ now' = now + TickSeconds
  /\ op' = Call("tick")
  /\ UNCHANGED <<mapping_data, file, active, run, inv>>

\* ProjectConfig.add_environment_set: the name joins the active list once
AddEnvironmentSet(current_sets, env_set) ==
  IF InList(env_set, current_sets) THEN current_sets ELSE Append(current_sets, env_set)

\* mutant: the local state is reset before the issues are reported
SetupIssuesResets(r) ==
  /\ run' = [r EXCEPT !.outcome = "setup_issues"]
  /\ active' = <<>>
  /\ UNCHANGED <<mapping_data, file, now, op, inv>>

\* validate_setup() returned issues: they are printed and the command returns
SetupIssues(r) ==
  /\ run' = [r EXCEPT !.outcome = "setup_issues"]
  /\ UNCHANGED <<mapping_data, file, now, op, active, inv>>

\* dotconfig-hub init --env-set <env_set> [--force]
init ==
  \E issues \in BOOLEAN :
  \E env_set \in {e \in Names \cup {"zz"} : issues => e = "a"} :
  \E force \in {f \in BOOLEAN : f => ~issues /\ InList(env_set, active)} :
    LET r == [Run("init") EXCEPT !.env_set = env_set, !.force = force, !.at = now] IN
    IF issues THEN SetupIssues(r)
    ELSE IF env_set \notin DOMAIN Catalog THEN
      /\ run' = [r EXCEPT !.outcome = "unknown_env_set"]
      /\ UNCHANGED <<mapping_data, file, now, op, active, inv>>
    ELSE IF InList(env_set, active) /\ ~force THEN
      /\ run' = [r EXCEPT !.outcome = "already_active"]
      /\ UNCHANGED <<mapping_data, file, now, op, active, inv>>
    ELSE
      LET current_sets    == AddEnvironmentSet(active, env_set)
          project_mapping == _load_mapping(file)
          added           == AddProject(project_mapping, ProjectDir, <<>>, current_sets, now)
      IN
      IF project_mapping.type # "dict" THEN
        \* add_project raises after the local state has been saved
        /\ active' = current_sets
        /\ mapping_data' = project_mapping
        /\ run' = [r EXCEPT !.outcome = "error", !.active_env_sets = current_sets]
        /\ UNCHANGED <<file, now, op, inv>>
      ELSE
        /\ active' = current_sets
        /\ mapping_data' = SaveMapping(added)
        /\ file' = Doc(mapping_data'.projects)
        /\ run' = [r EXCEPT !.outcome = "completed", !.active_env_sets = current_sets,
                            !.updated = TRUE]
        /\ UNCHANGED <<now, op, inv>>

\* the saves made on the file so far
SavesDone == Cardinality({p \in Invocations : inv[p].pc = "saved"})

\* init, line 221 in invocation p: project_mapping = ProjectMapping(templates_source)
init_load(p) ==
  /\ inv[p].pc = "start"
  /\ inv' = [inv EXCEPT ![p] = [Idle EXCEPT !.pc = "loaded",
                                             !.mapping_data = _load_mapping(file),
                                             !.loaded = _load_mapping(file).projects,
                                             !.loaded_at = SavesDone]]
  /\ UNCHANGED <<mapping_data, file, now, op, active, run>>

\* init, lines 222-224 in invocation p: project_mapping.add_project(Path.cwd(), ...)
init_add(p) ==
  /\ inv[p].pc = "loaded"
  /\ \E environment_sets \in EnvLists :
       inv' = [inv EXCEPT ![p] =
                 IF inv[p].mapping_data.type # "dict"
                   THEN [inv[p] EXCEPT !.pc = "failed", !.raised = TRUE]
                   ELSE [inv[p] EXCEPT !.pc = "added",
                                       !.mapping_data = AddProject(inv[p].mapping_data, Cwd[p],
                                                                   <<>>, environment_sets, now)]]
  /\ UNCHANGED <<mapping_data, file, now, op, active, run>>

\* init, line 225 in invocation p: project_mapping.save_mapping()
init_save(p) ==
  /\ inv[p].pc = "added"
  /\ LET saved == SaveMapping(inv[p].mapping_data) IN
     /\ file' = Doc(saved.projects)
     /\ inv' = [inv EXCEPT ![p] = [inv[p] EXCEPT !.pc = "saved", !.mapping_data = saved,
                                                 !.saved_at = SavesDone + 1]]
  /\ UNCHANGED <<mapping_data, now, op, active, run>>

\* the engine's behaviour in one run: the count every call returns, and
\* whether the call made for the at-th environment set raises
Raises == {"none", "KeyboardInterrupt", "Exception"}

Engines ==
  { e \in [count : 0..MaxCount, raises : Raises, at : 1..Cardinality(Names)] :
      e.raises = "none" => e.at = 1 }

Quiet == [count |-> 0, raises |-> "none", at |-> 1]

Merge(f, g) ==
  [k \in DOMAIN f \cup DOMAIN g |-> IF k \in DOMAIN g THEN g[k] ELSE f[k]]

\* FileSyncer.sync_all_tools: "<environment_set>/<tool>" -> count
SyncAllTools(eng, env_set_name) ==
  [k \in {<<env_set_name, t>> : t \in Catalog[env_set_name]} |-> eng.count]

\* the message of lines 339-344: the tool is not in the set, and the set's tools
NotFound(env_set_name) == [env_set |-> env_set_name, available_tools |-> Catalog[env_set_name]]

\* mutant: the loop ends at the first environment set that lacks the tool
RECURSIVE SyncLoopBreak(_, _, _, _, _, _)
SyncLoopBreak(active_env_sets, i, tool, eng, all_results, not_found) ==
  IF i > Len(active_env_sets)
    THEN [all_results |-> all_results, not_found |-> not_found, raised |-> "none"]
  ELSE
    LET env_set_name == active_env_sets[i] IN
    IF tool # None /\ tool \notin Catalog[env_set_name]
      THEN [all_results |-> all_results,
            not_found |-> Append(not_found, NotFound(env_set_name)), raised |-> "none"]
    ELSE IF eng.raises # "none" /\ eng.at = i
      THEN [all_results |-> all_results, not_found |-> not_found, raised |-> eng.raises]
    ELSE IF tool # None
      THEN SyncLoopBreak(active_env_sets, i + 1, tool, eng,
                         Merge(all_results, [k \in {<<env_set_name, tool>>} |-> eng.count]),
                         not_found)
    ELSE SyncLoopBreak(active_env_sets, i + 1, tool, eng,
                       Merge(all_results, SyncAllTools(eng, env_set_name)), not_found)

\* the loop over the environment sets; not_found lists the "tool not found"
\* messages printed, raised names the exception that ended the loop
RECURSIVE SyncLoop(_, _, _, _, _, _)
SyncLoop(active_env_sets, i, tool, eng, all_results, not_found) ==
  IF i > Len(active_env_sets)
    THEN [all_results |-> all_results, not_found |-> not_found, raised |-> "none"]
  ELSE
    LET env_set_name == active_env_sets[i] IN
    IF tool # None /\ tool \notin Catalog[env_set_name]
      THEN SyncLoop(active_env_sets, i + 1, tool, eng, all_results,
                    Append(not_found, NotFound(env_set_name)))
    ELSE IF eng.raises # "none" /\ eng.at = i
      THEN [all_results |-> all_results, not_found |-> not_found, raised |-> eng.raises]
    ELSE IF tool # None
      THEN SyncLoop(active_env_sets, i + 1, tool, eng,
                    Merge(all_results, [k \in {<<env_set_name, tool>>} |-> eng.count]),
                    not_found)
    ELSE SyncLoop(active_env_sets, i + 1, tool, eng,
                  Merge(all_results, SyncAllTools(eng, env_set_name)), not_found)

SyncFile(file_name, eng) ==
  IF eng.raises # "none" /\ eng.at = 1
    THEN [all_results |-> <<>>, not_found |-> <<>>, raised |-> eng.raises]
    ELSE [all_results |-> [k \in {<<"file", file_name>>} |-> eng.count],
          not_found |-> <<>>, raised |-> "none"]

AnySynced(all_results) == \E k \in DOMAIN all_results : all_results[k] > 0

\* mutant: a dry run updates the ledger too
UpdatesMappingAlways(dry_run, all_results) == AnySynced(all_results)

\* lines 361-366: the ledger update after a successful sync
UpdatesMapping(dry_run, all_results) == ~dry_run /\ AnySynced(all_results)

SyncUpdate(project_mapping, active_env_sets, t) ==
  SaveMapping(UpdateLastSynced(AddProject(project_mapping, ProjectDir, <<>>, active_env_sets, t),
                               ProjectDir, <<>>, t))

\* the environment sets a run works on (lines 299-307)
ActiveEnvSets(env_set) == IF env_set # None THEN <<env_set>> ELSE active

\* the question "Continue anyway?" is asked (lines 300-305)
Asks(env_set) == env_set # None /\ ~InList(env_set, active)

\* dotconfig-hub sync [--tool] [--env-set] [--file] [--dry-run]
\* (options, answers and engine behaviours that a run never reads are not varied)
sync ==
  \E issues \in BOOLEAN :
  \E env_set \in {e \in {None} \cup Names : issues => e = None} :
  \E confirm \in {c \in BOOLEAN : ~c => ~issues /\ Asks(env_set)} :
  \E starts \in {~issues /\ (Asks(env_set) => confirm) /\ ActiveEnvSets(env_set) # <<>>} :
  \E file_name \in {f \in {None, "f"} : ~starts => f = None} :
  \E tool \in {t \in {None, "git"} : (file_name # None \/ ~starts) => t = None} :
  \E dry_run \in {d \in BOOLEAN : d => starts} :
  \E eng \in {e \in Engines :
                /\ ~starts => e = Quiet
                /\ e.raises # "none" =>
                     e.at <= (IF file_name # None THEN 1 ELSE Len(ActiveEnvSets(env_set)))
                /\ (e.raises # "none" /\ e.at = 1 /\ tool = None) => e.count = 0} :
    LET r == [Run("sync") EXCEPT !.env_set = env_set, !.tool = tool, !.file = file_name,
                                 !.dry_run = dry_run, !.at = now]
        project_mapping == _load_mapping(file)
        active_env_sets == ActiveEnvSets(env_set)
    IN
    IF issues THEN SetupIssues(r)
    ELSE IF Asks(env_set) /\ ~confirm THEN
      /\ run' = [r EXCEPT !.outcome = "declined"]
      /\ mapping_data' = project_mapping
      /\ UNCHANGED <<file, now, op, active, inv>>
    ELSE IF active_env_sets = <<>> THEN
      /\ run' = [r EXCEPT !.outcome = "no_active"]
      /\ mapping_data' = project_mapping
      /\ UNCHANGED <<file, now, op, active, inv>>
    ELSE
      LET synced == IF file_name # None THEN SyncFile(file_name, eng)
                    ELSE SyncLoop(active_env_sets, 1, tool, eng, <<>>, <<>>)
          wanted  == synced.raised = "none" /\ UpdatesMapping(dry_run, synced.all_results)
          \* add_project raises inside the try: reported as an error and re-raised
          updates == wanted /\ project_mapping.type = "dict"
      IN
      /\ run' = [r EXCEPT
                   !.outcome = CASE synced.raised = "KeyboardInterrupt" -> "cancelled"
                                 [] synced.raised = "none" /\ wanted = updates -> "completed"
                                 [] OTHER -> "error",
                   !.active_env_sets = active_env_sets,
                   !.all_results = synced.all_results,
                   !.not_found = synced.not_found,
                   !.raised = synced.raised,
                   !.displayed = (synced.raised = "none"),
                   !.updated = updates]
      /\ mapping_data' = IF updates THEN SyncUpdate(project_mapping, active_env_sets, now)
                         ELSE project_mapping
      /\ file' = IF updates THEN Doc(mapping_data'.projects) ELSE file
      /\ UNCHANGED <<now, op, active, inv>>

Next ==
  \/ Construct
  \/ save_mapping
  \/ add_project
  \/ remove_project
  \/ get_project_info
  \/ get_projects_by_environment_set
  \/ get_all_projects
  \/ get_environment_set_usage
  \/ update_last_synced
  \/ cleanup_missing_projects
  \/ find_projects_needing_sync
  \/ Tick
  \/ init
  \/ sync
  \/ \E p \in Invocations : init_load(p)
  \/ \E p \in Invocations : init_add(p)
  \/ \E p \in Invocations : init_save(p)

\* one ledger instance in memory, over time
NextLedger ==
  \/ add_project
  \/ remove_project
  \/ get_project_info
  \/ get_projects_by_environment_set
  \/ get_all_projects
  \/ get_environment_set_usage
  \/ update_last_synced
  \/ cleanup_missing_projects
  \/ find_projects_needing_sync
  \/ Tick

SpecLedger == Init /\ [][NextLedger]_vars

\* one ledger instance and its backing file, at one instant
NextStore ==
  \/ Construct
  \/ save_mapping
  \/ add_project
  \/ remove_project
  \/ get_project_info
  \/ get_projects_by_environment_set
  \/ get_all_projects
  \/ get_environment_set_usage
  \/ update_last_synced
  \/ cleanup_missing_projects
  \/ find_projects_needing_sync

SpecStore == Init /\ [][NextStore]_vars

\* a ledger instance built on whatever file is there
InitLoad ==
  /\ file \in LoadFiles
  /\ mapping_data = _load_mapping(file)
  /\ now = 0
  /\ op = [Call("__init__") EXCEPT !.warning = Warns(file)]
  /\ active = <<>>
  /\ run = Run("")
  /\ inv = [p \in Invocations |-> Idle]

SpecLoad == InitLoad /\ [][NextStore]_vars

\* the commands run in one project, over time
NextCli ==
  \/ init
  \/ sync
  \/ Tick

\* the commands start from a ledger file that already lists other projects
InitCli == Init /\ file.kind = "doc"

SpecCli == InitCli /\ [][NextCli]_vars

\* the commands run in one project, at one instant
NextCliNow ==
  \/ init
  \/ sync

SpecCliNow == InitCli /\ [][NextCliNow]_vars

\* two init commands, in two projects, whose ledger steps interleave
NextRace ==
  \/ \E p \in Invocations : init_load(p)
  \/ \E p \in Invocations : init_add(p)
  \/ \E p \in Invocations : init_save(p)
  \/ Tick

SpecRace == Init /\ [][NextRace]_vars

Spec == Init /\ [][Next]_vars

\* ------------------------------------------------------------------ claims
\* the entry of the call's project, as lookup returns it right after the call
Looked == GetProjectInfo(mapping_data, op.cwd, op.project_path)

\* the key the call's project is stored under
CallKey == _normalize_project_path(op.cwd, op.project_path)

\* the directory the call's project_path names
CallDir == Resolve(op.cwd, op.project_path)

\* the directory a stored key names
KeyDir(key) == Expanduser(PathOf(key))

\* C1: right after add_project(P, S), lookup(P) returns an entry whose
\* environment-set list is S and whose last_synced is present, parses as an
\* ISO timestamp and is not later than the current time.
C1_LookupAfterAdd ==
  op.name = "add_project" =>
    /\ Looked # <<>>
    /\ Looked[1].environment_sets = op.environment_sets
    /\ Looked[1].last_synced.kind # "absent"
    /\ fromisoformat(Looked[1].last_synced).ok
    /\ fromisoformat(Looked[1].last_synced).t <= now

\* an add made after the clock has advanced, into a ledger that holds another entry
C1_Witness ==
  /\ op.name = "add_project"
  /\ now > 0
  /\ Len(mapping_data.projects) >= 2
  /\ Looked # <<>>
  /\ Looked[1].last_synced = isoformat(now)

WithoutTimestamps(projects) ==
  [i \in 1..Len(projects) |->
     [key |-> projects[i].key, environment_sets |-> projects[i].info.environment_sets]]

\* C2: after add_project the ledger holds exactly one entry for the path, with
\* the list of this (the last) call; an existing entry is overwritten in place,
\* no entry is appended for it, the other entries are untouched, and a call
\* that repeats the stored list changes nothing but that entry's timestamp.
C2_AddOverwrites ==
  op.name = "add_project" =>
    LET projects == mapping_data.projects IN
    /\ Cardinality({i \in 1..Len(projects) : projects[i].key = CallKey}) = 1
    /\ Looked = <<[environment_sets |-> op.environment_sets, last_synced |-> isoformat(now)]>>
    /\ Len(projects) = Len(op.before) + (IF CallKey \in Keys(op.before) THEN 0 ELSE 1)
    /\ \A i \in 1..Len(op.before) :
         op.before[i].key # CallKey => projects[i] = op.before[i]
    /\ (/\ CallKey \in Keys(op.before)
        /\ Get(op.before, CallKey)[1].environment_sets = op.environment_sets)
       => WithoutTimestamps(projects) = WithoutTimestamps(op.before)

\* a second add on a stored path, with a different list, at a later time
C2_Witness ==
  /\ op.name = "add_project"
  /\ CallKey \in Keys(op.before)
  /\ Get(op.before, CallKey)[1].environment_sets # op.environment_sets
  /\ Get(op.before, CallKey)[1].last_synced = isoformat(0)
  /\ now > 0
  /\ Len(op.before) >= 2

\* C3: a project under the home directory is stored under a key that begins
\* with "~", and looking the project up by that stored key finds the same
\* entry as looking it up by the path it was added under.
C3_AliasRoundTrip ==
  (op.name = "add_project" /\ IsRelativeTo(CallDir, Home)) =>
    /\ CallKey[1] = "~"
    /\ GetProjectInfo(mapping_data, op.cwd, PathOf(CallKey)) = Looked

\* C4: lookup, remove and touch find the entry by the directory the path
\* names, whatever the spelling: lookup returns the entry whose key names that
\* directory, remove leaves no entry for it and keeps all others, touch stamps
\* the entry for it, and add stores the entry under a key that names it.
C4_SameNormalization ==
  LET projects   == mapping_data.projects
      Named(seq) == {i \in 1..Len(seq) : KeyDir(seq[i].key) = CallDir}
  IN
  /\ op.name = "get_project_info" =>
       /\ {op.result[i] : i \in 1..Len(op.result)} = {projects[i].info : i \in Named(projects)}
       /\ Len(op.result) = Cardinality(Named(projects))
  /\ op.name = "remove_project" =>
       /\ Named(projects) = {}
       /\ Len(projects) = Len(op.before) - Cardinality(Named(op.before))
       /\ \A i \in 1..Len(op.before) :
            i \notin Named(op.before) => \E j \in 1..Len(projects) : projects[j] = op.before[i]
  /\ op.name = "update_last_synced" =>
       /\ Len(projects) = Len(op.before)
       /\ \A i \in Named(op.before) : projects[i].info.last_synced = isoformat(now)
  /\ op.name = "add_project" => Cardinality(Named(projects)) = 1

\* an entry under the home directory reached through the symbolic link
C4_Witness ==
  /\ op.name \in {"get_project_info", "remove_project", "update_last_synced"}
  /\ op.project_path \in {L, <<"p">>}
  /\ \E i \in 1..Len(op.before) : KeyDir(op.before[i].key) = CallDir
  /\ op.name = "get_project_info" => op.result # <<>>

\* the project's entry in the saved ledger, <<>> when there is none
Saved == Get(_load_mapping(file).projects, _normalize_project_path(ProjectDir, <<>>))

\* C5: after a sync run that completed (no error, no cancellation) and was no
\* dry run, the project's entry exists in the saved ledger, carries the time
\* of the run as last_synced, and the run has saved the ledger.
C5_SyncUpdatesLedger ==
  (run.cmd = "sync" /\ run.outcome = "completed" /\ ~run.dry_run) =>
    /\ run.updated
    /\ file.kind = "doc"
    /\ Saved # <<>>
    /\ Saved[1].last_synced = isoformat(run.at)

\* C6: the project's ledger entry lists exactly the environment sets that are
\* active in the project's local state.
C6_LedgerListsActiveSets ==
  Saved # <<>> => Saved[1].environment_sets = active

OnDisk(item) == KeyDir(item.key) \in Disk

NotOnDisk(item) == ~OnDisk(item)

NoDuplicateKeys(projects) ==
  \A i, j \in 1..Len(projects) : projects[i].key = projects[j].key => i = j

\* C7: on one ledger instance an entry disappears only through remove_project
\* on its own path or through cleanup_missing_projects when its expanded path
\* does not exist; no other operation deletes an entry, and no key is ever
\* held twice.
C7_EntriesOnlyLeaveExplicitly ==
  /\ NoDuplicateKeys(mapping_data.projects)
  /\ op.name # "__init__" =>
       \A i \in 1..Len(op.before) :
         op.before[i].key \notin Keys(mapping_data.projects) =>
           \/ op.name = "remove_project" /\ op.before[i].key = CallKey
           \/ op.name = "cleanup_missing_projects" /\ NotOnDisk(op.before[i])

\* save_mapping reorders a ledger of at least two entries and keeps them all
C7_Witness ==
  /\ op.name = "save_mapping"
  /\ Len(op.before) >= 2
  /\ mapping_data.projects # op.before
  /\ Keys(mapping_data.projects) = Keys(op.before)

\* C8: cleanup_missing_projects removes exactly the entries whose key, with
\* the home alias expanded, is not on disk, leaves the others as they were and
\* in their order, and returns the removed keys.
C8_CleanupRemovesMissing ==
  op.name = "cleanup_missing_projects" =>
    LET gone == SelectSeq(op.before, NotOnDisk) IN
    /\ mapping_data.projects = SelectSeq(op.before, OnDisk)
    /\ op.result = [i \in 1..Len(gone) |-> gone[i].key]

\* a cleanup that removes one entry and keeps one stored under the home alias
C8_Witness ==
  /\ op.name = "cleanup_missing_projects"
  /\ op.result # <<>>
  /\ \E i \in 1..Len(mapping_data.projects) : mapping_data.projects[i].key[1] = "~"

\* C9's reading of "stale" for a threshold of hours before now
Stale(item, hours) ==
  \/ item.info.last_synced.kind = "absent"
  \/ item.info.last_synced.kind = "bad"
  \/ /\ item.info.last_synced.kind = "iso"
     /\ item.info.last_synced.t < now - hours * SecondsPerHour

\* C9: find_projects_needing_sync returns an entry if and only if its
\* last_synced is absent, unparsable or older than now minus the threshold,
\* each returned entry carries its path, and the ledger is not modified.
C9_FindStale ==
  op.name = "find_projects_needing_sync" =>
    LET projects == mapping_data.projects
        old      == {i \in 1..Len(projects) : Stale(projects[i], op.hours)}
    IN
    /\ projects = op.before
    /\ Len(op.result) = Cardinality(old)
    /\ {op.result[i] : i \in 1..Len(op.result)} = {WithPath(projects[i]) : i \in old}
    /\ \A i \in 1..Len(projects) :
         i \notin old => \A j \in 1..Len(op.result) : op.result[j].path # projects[i].key

\* a search that returns an entry for its age and leaves a recent one out
C9_Witness ==
  /\ op.name = "find_projects_needing_sync"
  /\ \E j \in 1..Len(op.result) : op.result[j].last_synced.kind = "iso"
  /\ Len(op.result) < Len(mapping_data.projects)

\* the names that appear in some entry
NamesUsed(projects) ==
  {n \in Names : \E i \in 1..Len(projects) : InList(n, projects[i].info.environment_sets)}

\* C10: get_environment_set_usage maps exactly the names that appear in some
\* entry, each to the number of entries get_projects_by_environment_set
\* returns for it.
C10_UsageCountsProjects ==
  op.name = "get_environment_set_usage" =>
    /\ DOMAIN op.usage = NamesUsed(mapping_data.projects)
    /\ \A n \in DOMAIN op.usage :
         op.usage[n] = Len(GetProjectsByEnvironmentSet(mapping_data.projects, n))

\* the entries other than the one stored under key, in order
Others(projects, key) ==
  LET Other(item) == item.key # key IN SelectSeq(projects, Other)

\* C11: update_last_synced on a stored path changes only that entry's
\* last_synced, to the time of the call, which is not earlier than a timestamp
\* the entry carried; its environment-set list, its place and every other
\* entry are unchanged; on a path that is not stored the ledger is unchanged
\* and no entry is created.
C11_TouchOnlyTimestamp ==
  op.name = "update_last_synced" =>
    LET projects == mapping_data.projects IN
    IF CallKey \in Keys(op.before)
      THEN LET i == Index(op.before, CallKey) IN
           /\ Len(projects) = Len(op.before)
           /\ \A j \in 1..Len(projects) : j # i => projects[j] = op.before[j]
           /\ projects[i].key = CallKey
           /\ projects[i].info.environment_sets = op.before[i].info.environment_sets
           /\ projects[i].info.last_synced = isoformat(now)
           /\ op.before[i].info.last_synced.kind = "iso" =>
                op.before[i].info.last_synced.t <= projects[i].info.last_synced.t
      ELSE projects = op.before

\* a touch, after the clock has advanced, of an entry stamped earlier, next to
\* another entry
C11_Witness ==
  /\ op.name = "update_last_synced"
  /\ CallKey \in Keys(op.before)
  /\ Get(op.before, CallKey)[1].last_synced = isoformat(0)
  /\ now > 0
  /\ Len(op.before) >= 2

\* a touch of a path that is not stored, in a ledger that holds entries
C11_WitnessAbsent ==
  /\ op.name = "update_last_synced"
  /\ CallKey \notin Keys(op.before)
  /\ op.before # <<>>

\* C12: remove_project deletes the entry stored under the normalized path
\* when there is one, after which lookup of the path finds nothing, and leaves
\* every other entry as it was and in its order; on a path that is not stored
\* the ledger is unchanged.
C12_RemoveOnlyThatEntry ==
  op.name = "remove_project" =>
    /\ Looked = <<>>
    /\ CallKey \notin Keys(mapping_data.projects)
    /\ mapping_data.projects = Others(op.before, CallKey)
    /\ CallKey \notin Keys(op.before) => mapping_data.projects = op.before

\* a removal of a stored entry that leaves another entry behind
C12_Witness ==
  /\ op.name = "remove_project"
  /\ CallKey \in Keys(op.before)
  /\ Len(op.before) >= 2
  /\ Len(mapping_data.projects) = Len(op.before) - 1

\* C13: loading never raises, whatever the file holds: a missing file gives
\* an empty ledger, a corrupt or unreadable one an empty ledger and a warning,
\* and in every case the loaded document holds a "projects" mapping, so that
\* no later ledger operation raises for the lack of one.
C13_LoadTolerant ==
  /\ op.name = "__init__" =>
       /\ ~op.raised
       /\ file.kind = "missing" => mapping_data.projects = <<>>
       /\ file.kind = "corrupt" => mapping_data.projects = <<>> /\ op.warning
  /\ mapping_data.type = "dict"
  /\ ~op.raised

\* the entries of a ledger, as a set
Entries(projects) == {projects[i] : i \in 1..Len(projects)}

\* the keys are in ascending order
PathSorted(projects) ==
  \A i \in 1..(Len(projects) - 1) : StrLess(projects[i].key, projects[i + 1].key)

\* C14: after save_mapping, loading the file into a new instance gives the
\* entries the saving instance held: the same keys, each with the same
\* environment-set list and the same timestamp, and the file lists them in
\* ascending order of their keys.
C14_SaveLoadRoundTrip ==
  (op.name = "save_mapping" /\ ~op.raised) =>
    LET loaded == _load_mapping(file) IN
    /\ file.kind = "doc"
    /\ loaded.type = "dict"
    /\ Len(loaded.projects) = Len(op.before)
    /\ Entries(loaded.projects) = Entries(op.before)
    /\ loaded.projects = mapping_data.projects
    /\ PathSorted(file.projects)

\* a save of two entries held out of order, one stamped by the ledger itself
C14_Witness ==
  /\ op.name = "save_mapping"
  /\ ~op.raised
  /\ Len(op.before) >= 2
  /\ ~PathSorted(op.before)
  /\ \E i \in 1..Len(op.before) : op.before[i].info.last_synced.kind = "iso"

\* C15: a sync run with --dry-run leaves the ledger file as it was and does
\* not update the ledger it loaded, whatever counts the engine reports.
C15_DryRunWritesNothing ==
  [][(run'.cmd = "sync" /\ run'.dry_run) =>
       /\ file' = file
       /\ mapping_data' = _load_mapping(file)
       /\ ~run'.updated]_vars

\* a completed dry run for which the engine reported files to sync
C15_Witness ==
  /\ run.cmd = "sync"
  /\ run.dry_run
  /\ run.outcome = "completed"
  /\ AnySynced(run.all_results)
  /\ Saved = <<>>

\* C16: when validate_setup reports issues, init and sync return before any
\* sync attempt and change nothing: the active environment sets, the ledger
\* in memory and the ledger file are as before, and nothing was synced,
\* counted, displayed or recorded.
C16_SetupIssuesAbort ==
  [][run'.outcome = "setup_issues" =>
       /\ UNCHANGED <<mapping_data, file, active>>
       /\ run'.all_results = <<>>
       /\ run'.active_env_sets = <<>>
       /\ ~run'.displayed
       /\ ~run'.updated]_vars

\* a command stopped by setup issues in a project that has active sets and a
\* ledger entry
C16_Witness ==
  /\ run.outcome = "setup_issues"
  /\ active # <<>>
  /\ Saved # <<>>

\* C17: in a completed sync run scoped to a tool, an active environment set
\* that lacks the tool gets the "not found" message with the set's tools and
\* no result, and every active environment set that has the tool gets its
\* result, wherever it comes in the list.
C17_UnknownToolSkipsOnlyThatSet ==
  (run.cmd = "sync" /\ run.tool # None /\ run.outcome = "completed") =>
    \A i \in 1..Len(run.active_env_sets) :
      LET e == run.active_env_sets[i] IN
      IF run.tool \in Catalog[e]
        THEN <<e, run.tool>> \in DOMAIN run.all_results
        ELSE /\ \A k \in DOMAIN run.all_results : k[1] # e
             /\ \E j \in 1..Len(run.not_found) : run.not_found[j] = NotFound(e)

\* a run scoped to a tool that the first active set lacks and the second has
C17_Witness ==
  /\ run.cmd = "sync"
  /\ run.tool = "git"
  /\ run.outcome = "completed"
  /\ run.active_env_sets = <<"a", "b">>
  /\ run.not_found = <<NotFound("a")>>
  /\ DOMAIN run.all_results = {<<"b", "git">>}

\* C18: a sync run the operator interrupts ends as a cancellation, not as an
\* error, and the results it had accumulated before the interrupt are
\* displayed.
C18_CancelReportsPartialCounts ==
  (run.cmd = "sync" /\ run.raised = "KeyboardInterrupt") =>
    /\ run.outcome = "cancelled"
    /\ run.all_results # <<>> => run.displayed

\* the key invocation p stores its project under
KeyOf(p) == _normalize_project_path(Cwd[p], <<>>)

\* s saved, and no invocation saved after it
SavedLast(s) ==
  /\ inv[s].pc = "saved"
  /\ \A o \in Invocations : inv[o].pc = "saved" => inv[o].saved_at <= inv[s].saved_at

\* o saved after s had loaded and before s saved
SavedBetween(o, s) ==
  /\ o # s
  /\ inv[o].pc = "saved"
  /\ inv[s].loaded_at < inv[o].saved_at
  /\ inv[o].saved_at < inv[s].saved_at

\* C19: when two invocations interleave load, add and save on one ledger
\* file, the file holds exactly the in-memory ledger of the invocation that
\* saved last, which is what that invocation loaded plus its own entry: the
\* entry another invocation saved after the last saver had loaded is not in
\* the file, and no invocation raises.
C19_LastWriterWins ==
  /\ \A p \in Invocations : ~inv[p].raised
  /\ \A s \in Invocations :
       SavedLast(s) =>
         LET on_disk == _load_mapping(file).projects IN
         /\ on_disk = inv[s].mapping_data.projects
         /\ Keys(on_disk) = Keys(inv[s].loaded) \cup {KeyOf(s)}
         /\ \A i \in 1..Len(inv[s].loaded) :
              inv[s].loaded[i].key # KeyOf(s) => inv[s].loaded[i] \in Entries(on_disk)
         /\ \A o \in Invocations :
              SavedBetween(o, s) =>
                Get(on_disk, KeyOf(o)) # Get(inv[o].mapping_data.projects, KeyOf(o))

\* both invocations have saved, the second to save had loaded before the
\* first saved, and the first's new entry is not in the file
C19_Witness ==
  \E s, o \in Invocations :
    /\ SavedLast(s)
    /\ SavedBetween(o, s)
    /\ KeyOf(o) \in Keys(inv[o].mapping_data.projects)
    /\ KeyOf(o) \notin Keys(_load_mapping(file).projects)

====
